---- MODULE Spec2Model ----
(***************************************************************************)
(* The request pipeline of src/client.rs: Client::url, new, with,          *)
(* set_stripe_account, get, post, post_empty, delete, set_headers, send.   *)
(*                                                                         *)
(* A Client holds a hyper client (an Rc-based handle, neither Send nor     *)
(* Sync), so a client and all its clones live on one thread and every      *)
(* operation blocks until it returns: at most one call is in progress.     *)
(* send waits twice (lines 127 and 131); the transport's answers at these  *)
(* two points are the environment's steps.                                 *)
(*                                                                         *)
(* Strings that the code only copies or compares are TLA+ strings; a       *)
(* resource path is a sequence of one-character strings, because url       *)
(* slices it by bytes; a character has a length in bytes (ByteLen).        *)
(***************************************************************************)
EXTENDS Integers, Sequences, FiniteSets, TLC

VARIABLES clients, call, last

vars == <<clients, call, last>>

\* ------------------------------------------------------------------ bounds
MaxClients == 2
MaxPathLen == 2

\* ------------------------------------------------------------------ values
\* Option<T>
None == <<>>
Some(x) == <<x>>

ClientIds == 1..MaxClients
Keys == {"sk_test_a", "sk_test_b"}
Accounts == {"acct_123"}

\* struct Params, and its derived Default
ParamsDefault == [stripe_account |-> None]
ParamsValues == {ParamsDefault} \cup {[stripe_account |-> Some(a)] : a \in Accounts}

\* struct Client is [secret_key, params]; its hyper client field is a handle
\* to the transport, which the operations pass requests to and never read.
\* A slot that holds no client:
NoClient == [live |-> FALSE, secret_key |-> "", params |-> ParamsDefault]

\* Resource paths handed to get, post, post_empty and delete: any &str.
\* "é" is a character of two bytes in UTF-8, the others are of one.
PathChars == {"/", "a", "é"}
ByteLen(ch) == IF ch = "é" THEN 2 ELSE 1
Paths == UNION {[1..n -> PathChars] : n \in 0..MaxPathLen}

\* Status codes the transport may deliver (hyper's as_u16()).
Statuses == {199, 200, 299, 300, 402}

\* Result<T, Error> of a call, and a call that aborted by panic.
Ok(v) == [r |-> "Ok", value |-> v]
Err(e) == [r |-> "Err", err |-> e]
Panic == [r |-> "Panic"]

\* ------------------------------------------------------------------ url
\* "https://api.stripe.com/v1/"
BaseUrl ==
    <<"h", "t", "t", "p", "s", ":", "/", "/", "a", "p", "i", ".", "s", "t",
      "r", "i", "p", "e", ".", "c", "o", "m", "/", "v", "1", "/">>

\* hyper::Uri::from_str is a library function: which strings it rejects is
\* not decided by this code.  Its verdict on the string it is handed is an
\* input of the call, accepts, and both verdicts are considered for every
\* string; no string is taken to be malformed, or well-formed, by the model.
UriFromStr(s, accepts) ==
    IF accepts THEN [ok |-> TRUE, uri |-> s] ELSE [ok |-> FALSE]

\* Client::url when the first separator is not stripped.
url_keep_separator(path, accepts) ==
    LET parsed == UriFromStr(BaseUrl \o path, accepts)
    IN  IF parsed.ok
        THEN [ok |-> TRUE, uri |-> parsed.uri, parsed |-> Some(BaseUrl \o path)]
        ELSE [ok |-> FALSE, parsed |-> Some(BaseUrl \o path)]

\* &path[1..]: the slice from byte 1 panics when byte 1 is past the end
\* (the empty path) or is not a character boundary (the first character is
\* of more than one byte).
SlicePanics(path) == Len(path) < 1 \/ ByteLen(path[1]) > 1

\* Client::url: the slice panics, or unwrap() panics when the parser rejects
\* the string.  parsed is the string handed to the parser, if the slice got
\* that far.
url(path, accepts) ==
    IF SlicePanics(path)
    THEN [ok |-> FALSE, parsed |-> None]
    ELSE LET str == BaseUrl \o SubSeq(path, 2, Len(path))
             parsed == UriFromStr(str, accepts)
         IN  IF parsed.ok
             THEN [ok |-> TRUE, uri |-> parsed.uri, parsed |-> Some(str)]
             ELSE [ok |-> FALSE, parsed |-> Some(str)]

\* ------------------------------------------------------------------ headers
\* hyper Headers: a list of [name, value] entries; a value is the list of
\* its parts.
NoHeaders == <<>>

\* Headers::set / set_raw: replaces any entry of that name.
HeadersSet(headers, name, value) ==
    SelectSeq(headers, LAMBDA e : e.name # name) \o <<[name |-> name, value |-> value]>>

HeaderValues(headers, name) ==
    {i \in 1..Len(headers) : headers[i].name = name}

\* Basic { username, password: None }
AuthorizationBasic(username) == <<"Basic", username>>
\* ContentType::form_url_encoded()
FormUrlEncoded == <<"application/x-www-form-urlencoded">>

\* set_headers without the account scoping.
set_headers_no_account(self, headers) ==
    HeadersSet(HeadersSet(headers, "Authorization", AuthorizationBasic(self.secret_key)),
               "Content-Type", FormUrlEncoded)

\* Client::set_headers
set_headers(self, headers) ==
    LET h1 == HeadersSet(headers, "Authorization", AuthorizationBasic(self.secret_key))
        h2 == HeadersSet(h1, "Content-Type", FormUrlEncoded)
    IN  IF self.params.stripe_account # None
        THEN HeadersSet(h2, "Stripe-Account", <<self.params.stripe_account[1]>>)
        ELSE h2

\* hyper::Request::new(method, url)
RequestNew(method, uri) ==
    [method |-> method, uri |-> uri, headers |-> NoHeaders, body |-> None]

\* Request::set_body
SetBody(request, body) == [request EXCEPT !.body = Some(body)]

\* ------------------------------------------------------------------ serde_qs
\* Values handed to post as params: a struct with named fields in declared
\* order, an optional field that is absent, leaves, and a leaf whose
\* Serialize implementation fails.
PStr(s) == [t |-> "str", s |-> s]
PInt(n) == [t |-> "int", n |-> n]
PNone == [t |-> "none"]
PFail == [t |-> "fail"]
PStruct(fields) == [t |-> "struct", fields |-> fields]
Field(k, v) == [k |-> k, v |-> v]

\* {foo: "bar", nested: {x: 1}}
ParamsExample ==
    PStruct(<<Field("foo", PStr("bar")), Field("nested", PStruct(<<Field("x", PInt(1))>>))>>)
\* {description: None}
ParamsAbsent == PStruct(<<Field("description", PNone)>>)
\* a bare string: not a map or struct at the top level
ParamsScalar == PStr("foo")
\* {foo: "bar", nested: {x: <fails>}}
ParamsBadLeaf ==
    PStruct(<<Field("foo", PStr("bar")), Field("nested", PStruct(<<Field("x", PFail)>>))>>)

PostParams == {ParamsExample, ParamsAbsent, ParamsScalar, ParamsBadLeaf}

RECURSIVE QsFails(_)
QsFails(v) ==
    CASE v.t = "fail" -> TRUE
      [] v.t = "struct" -> \E i \in 1..Len(v.fields) : QsFails(v.fields[i].v)
      [] OTHER -> FALSE

QsKey(prefix, k) == IF prefix = "" THEN k ELSE prefix \o "%5B" \o k \o "%5D"

\* The key=value pairs of a struct's fields, in declared order, nested
\* fields under bracketed keys, absent fields omitted.
RECURSIVE QsPairs(_, _)
QsPairs(prefix, fields) ==
    IF fields = <<>>
    THEN <<>>
    ELSE LET f == Head(fields)
             key == QsKey(prefix, f.k)
             here == CASE f.v.t = "str" -> <<key \o "=" \o f.v.s>>
                       [] f.v.t = "int" -> <<key \o "=" \o ToString(f.v.n)>>
                       [] f.v.t = "struct" -> QsPairs(key, f.v.fields)
                       [] OTHER -> <<>>
         IN  here \o QsPairs(prefix, Tail(fields))

RECURSIVE QsJoin(_)
QsJoin(pairs) ==
    IF pairs = <<>> THEN ""
    ELSE IF Len(pairs) = 1 THEN pairs[1]
    ELSE pairs[1] \o "&" \o QsJoin(Tail(pairs))

\* serde_qs::to_string
QsToString(params) ==
    IF params.t # "struct"
    THEN [ok |-> FALSE, diag |-> "top-level serializer supports only maps and structs"]
    ELSE IF QsFails(params)
    THEN [ok |-> FALSE, diag |-> "custom serialize error"]
    ELSE [ok |-> TRUE, value |-> QsJoin(QsPairs("", params.fields))]

\* ------------------------------------------------------------------ serde_json
\* Response bodies as the transport delivers them.  In BodyInvalidUtf8 the
\* four characters \xFF stand for the single byte 0xFF.
BodyEmpty == ""
BodyHtml == "<html>Bad Gateway</html>"
BodyEnvelope == "{\"error\":{\"message\":\"card declined\"}}"
BodyEnvelopeFull ==
    "{\"error\":{\"type\":\"card_error\",\"code\":\"card_declined\",\"message\":\"Your card was declined.\",\"http_status\":200}}"
BodyResource == "{\"id\":\"ch_1\"}"
BodyResourceWithError == "{\"id\":\"ch_2\",\"error\":{\"message\":\"card declined\"}}"
BodyInvalidUtf8 == "{\"id\":\"\\xFF\"}"

Bodies ==
    {BodyEmpty, BodyHtml, BodyEnvelope, BodyEnvelopeFull, BodyResource,
     BodyResourceWithError, BodyInvalidUtf8}

\* String::from_utf8_lossy: an invalid byte becomes U+FFFD.
FromUtf8Lossy(bytes) ==
    IF bytes = BodyInvalidUtf8 THEN "{\"id\":\"\\uFFFD\"}" ELSE bytes

\* JSON values
JStr(s) == [t |-> "string", s |-> s]
JNum(n) == [t |-> "number", n |-> n]
JObj(f) == [t |-> "object", f |-> f]

\* serde_json's parse of a body text: the value, or the diagnostic.  The
\* diagnostics of a typed decode below are given without serde_json's
\* quoting of the field name and without the position.
JsonParse(text) ==
    CASE text = "" ->
           [ok |-> FALSE, diag |-> "EOF while parsing a value at line 1 column 0"]
      [] text = BodyHtml ->
           [ok |-> FALSE, diag |-> "expected value at line 1 column 1"]
      [] text = BodyEnvelope ->
           [ok |-> TRUE, value |-> JObj([error |-> JObj([message |-> JStr("card declined")])])]
      [] text = BodyEnvelopeFull ->
           [ok |-> TRUE,
            value |-> JObj([error |-> JObj([type |-> JStr("card_error"),
                                            code |-> JStr("card_declined"),
                                            message |-> JStr("Your card was declined."),
                                            http_status |-> JNum(200)])])]
      [] text = BodyResource ->
           [ok |-> TRUE, value |-> JObj([id |-> JStr("ch_1")])]
      [] text = BodyResourceWithError ->
           [ok |-> TRUE,
            value |-> JObj([id |-> JStr("ch_2"),
                            error |-> JObj([message |-> JStr("card declined")])])]
      [] text = "{\"id\":\"\\uFFFD\"}" ->
           [ok |-> TRUE, value |-> JObj([id |-> JStr("\\uFFFD")])]

\* The success types T a caller asks for: serde_json::Value, which takes
\* any JSON, and a resource struct { id: String } (unknown fields ignored).
TargetTypes == {"Value", "Resource"}

\* serde_json::from_str::<T>
JsonFromStr(T, text) ==
    LET p == JsonParse(text)
    IN  IF ~p.ok THEN p
        ELSE IF T = "Value" THEN [ok |-> TRUE, value |-> p.value]
        ELSE IF p.value.t # "object"
        THEN [ok |-> FALSE, diag |-> "invalid type, expected struct Resource"]
        ELSE IF "id" \notin DOMAIN p.value.f
        THEN [ok |-> FALSE, diag |-> "missing field id"]
        ELSE IF p.value.f.id.t # "string"
        THEN [ok |-> FALSE, diag |-> "invalid type, expected a string"]
        ELSE [ok |-> TRUE, value |-> [id |-> p.value.f.id.s]]

\* ------------------------------------------------------------------ error
\* RequestError::default()
RequestErrorDefault ==
    [http_status |-> 0, error_type |-> None, message |-> None, code |-> None]

OptionalString(f, k) ==
    IF k \in DOMAIN f /\ f[k].t = "string" THEN Some(f[k].s) ELSE None

\* serde_json::from_str::<ErrorObject>: { "error": { message, type, code } };
\* http_status is not read from the payload.
JsonFromStrErrorObject(text) ==
    LET p == JsonParse(text)
    IN  IF ~p.ok THEN p
        ELSE IF p.value.t # "object"
        THEN [ok |-> FALSE, diag |-> "invalid type, expected struct ErrorObject"]
        ELSE IF "error" \notin DOMAIN p.value.f
        THEN [ok |-> FALSE, diag |-> "missing field error"]
        ELSE IF p.value.f.error.t # "object"
        THEN [ok |-> FALSE, diag |-> "invalid type, expected struct RequestError"]
        ELSE [ok |-> TRUE,
              value |-> [error |->
                  [http_status |-> 0,
                   error_type |-> OptionalString(p.value.f.error.f, "type"),
                   message |-> OptionalString(p.value.f.error.f, "message"),
                   code |-> OptionalString(p.value.f.error.f, "code")]]]

\* Error::from for the four sources of failure.
ErrorFromRequestError(e) == [kind |-> "RequestError", request_error |-> e]
ErrorFromJson(diag) == [kind |-> "Deserialization", diag |-> diag]
ErrorFromQs(diag) == [kind |-> "Serialization", diag |-> diag]
ErrorFromHyper(cause) == [kind |-> "Transport", cause |-> cause]

\* ------------------------------------------------------------------ send
\* The match of line 136 with 300 taken into the success range.
IsSuccessThrough300(status) == status \in 200..300

\* match status { 200...299 => ..., _ => ... }
IsSuccess(status) == status \in 200..299

\* The fallback of lines 139-141 without its message.
FallbackWithoutMessage(diag) == [error |-> RequestErrorDefault]

\* unwrap_or_else's closure: the ErrorObject built when the error body does
\* not decode.
FallbackErrorObject(diag) ==
    [error |-> [RequestErrorDefault EXCEPT
                   !.message = Some("failed to deserialize error: " \o diag)]]

\* Line 143 left out.
StampNothing(err, status) == err

\* err.error.http_status = status
StampStatus(err, status) == [err EXCEPT !.error.http_status = status]

\* send from the buffered body on: lossy text, the match on the status, the
\* error envelope or the success value.
send_classify(status, bytes, T) ==
    LET body == FromUtf8Lossy(bytes)
    IN  IF ~IsSuccess(status)
        THEN LET decoded == JsonFromStrErrorObject(body)
                 err == IF decoded.ok THEN decoded.value
                        ELSE FallbackErrorObject(decoded.diag)
             IN  Err(ErrorFromRequestError(StampStatus(err, status).error))
        ELSE LET decoded == JsonFromStr(T, body)
             IN  IF decoded.ok THEN Ok(decoded.value)
                 ELSE Err(ErrorFromJson(decoded.diag))

\* ------------------------------------------------------------------ state
\* clients: the clients that exist, by slot.
\* call:    the call in progress (its place in send), or Idle.
\* last:    what the caller holds from the operation that just returned: for
\*          a call, its result with what the transport saw of the call.
Idle == [pc |-> "idle"]
Pending == [op |-> "pending"]
NoResult == [op |-> "none"]

\* The single thread of the clients is between two operations.
Ready == call.pc = "idle" /\ last = NoResult

\* A call that went through send returns.
Finished(result) ==
    [op |-> "returned", T |-> call.T,
     dispatched |-> call.dispatched, responses |-> call.responses,
     result |-> result]

\* A call that ended before send was reached; u is what url did.
Aborted(c, op, path, params, T, accepts, u, result) ==
    /\ last' = [op |-> "aborted", method |-> op, path |-> path, params |-> params,
                accepts |-> accepts, parsed |-> u.parsed,
                dispatched |-> 0, responses |-> 0, result |-> result]
    /\ UNCHANGED <<clients, call>>

Init ==
    /\ clients = [c \in ClientIds |-> NoClient]
    /\ call = Idle
    /\ last = NoResult

\* ------------------------------------------------------------------ client
\* Client::new
new(c, secret_key) ==
    /\ Ready
    /\ ~clients[c].live
    /\ clients' = [clients EXCEPT ![c] =
                      [live |-> TRUE, secret_key |-> secret_key,
                       params |-> ParamsDefault]]
    /\ last' = [op |-> "new", c |-> c, secret_key |-> secret_key]
    /\ UNCHANGED call

\* with, where the params are written through to the original as well.
with_shared_params(c, d, params) ==
    /\ Ready
    /\ clients[c].live
    /\ ~clients[d].live
    /\ clients' = [clients EXCEPT ![c] = [clients[c] EXCEPT !.params = params],
                                  ![d] = [clients[c] EXCEPT !.params = params]]
    /\ last' = [op |-> "with", c |-> c, d |-> d, params |-> params]
    /\ UNCHANGED call

\* Client::with: the clone of c, with the given params, is client d.
with(c, d, params) ==
    /\ Ready
    /\ clients[c].live
    /\ ~clients[d].live
    /\ LET client == clients[c]
       IN  clients' = [clients EXCEPT ![d] = [client EXCEPT !.params = params]]
    /\ last' = [op |-> "with", c |-> c, d |-> d, params |-> params]
    /\ UNCHANGED call

\* Client::set_stripe_account
set_stripe_account(c, account_id) ==
    /\ Ready
    /\ clients[c].live
    /\ clients' = [clients EXCEPT ![c].params.stripe_account = Some(account_id)]
    /\ last' = [op |-> "set_stripe_account", c |-> c, account_id |-> account_id]
    /\ UNCHANGED call

\* Client::send up to its first wait: the request goes to the transport.
send(c, op, path, params, T, accepts, request) ==
    /\ call' = [pc |-> "wait_head", c |-> c, op |-> op, path |-> path,
                params |-> params, T |-> T, accepts |-> accepts,
                request |-> request,
                dispatched |-> 1, responses |-> 0, status |-> None]
    /\ last' = Pending
    /\ UNCHANGED clients

\* Client::get
get(c, path, T) ==
    /\ Ready
    /\ clients[c].live
    /\ \E accepts \in BOOLEAN :
       LET u == url(path, accepts)
       IN  IF ~u.ok
           THEN Aborted(c, "get", path, None, T, accepts, u, Panic)
           ELSE LET request == RequestNew("Get", u.uri)
                IN  send(c, "get", path, None, T, accepts,
                         [request EXCEPT !.headers = set_headers(clients[c], @)])

\* post that sends the request without a body when the encoding fails.
post_ignoring_encode_failure(c, path, params, T) ==
    /\ Ready
    /\ clients[c].live
    /\ \E accepts \in BOOLEAN :
       LET u == url(path, accepts)
       IN  IF ~u.ok
           THEN Aborted(c, "post", path, Some(params), T, accepts, u, Panic)
           ELSE LET body == QsToString(params)
                    request == RequestNew("Post", u.uri)
                    headed == [request EXCEPT !.headers = set_headers(clients[c], @)]
                IN  send(c, "post", path, Some(params), T, accepts,
                         IF body.ok THEN SetBody(headed, body.value) ELSE headed)

\* post that never attaches the encoded body.
post_without_body(c, path, params, T) ==
    /\ Ready
    /\ clients[c].live
    /\ \E accepts \in BOOLEAN :
       LET u == url(path, accepts)
       IN  IF ~u.ok
           THEN Aborted(c, "post", path, Some(params), T, accepts, u, Panic)
           ELSE LET body == QsToString(params)
                IN  IF ~body.ok
                    THEN Aborted(c, "post", path, Some(params), T, accepts, u,
                                 Err(ErrorFromQs(body.diag)))
                    ELSE LET request == RequestNew("Post", u.uri)
                         IN  send(c, "post", path, Some(params), T, accepts,
                                  [request EXCEPT !.headers = set_headers(clients[c], @)])

\* Client::post
post(c, path, params, T) ==
    /\ Ready
    /\ clients[c].live
    /\ \E accepts \in BOOLEAN :
       LET u == url(path, accepts)
       IN  IF ~u.ok
           THEN Aborted(c, "post", path, Some(params), T, accepts, u, Panic)
           ELSE LET body == QsToString(params)
                IN  IF ~body.ok
                    THEN Aborted(c, "post", path, Some(params), T, accepts, u,
                                 Err(ErrorFromQs(body.diag)))
                    ELSE LET request == RequestNew("Post", u.uri)
                             headed == [request EXCEPT
                                           !.headers = set_headers(clients[c], @)]
                         IN  send(c, "post", path, Some(params), T, accepts,
                                  SetBody(headed, body.value))

\* Client::post_empty
post_empty(c, path, T) ==
    /\ Ready
    /\ clients[c].live
    /\ \E accepts \in BOOLEAN :
       LET u == url(path, accepts)
       IN  IF ~u.ok
           THEN Aborted(c, "post_empty", path, None, T, accepts, u, Panic)
           ELSE LET request == RequestNew("Post", u.uri)
                IN  send(c, "post_empty", path, None, T, accepts,
                         [request EXCEPT !.headers = set_headers(clients[c], @)])

\* Client::delete
delete(c, path, T) ==
    /\ Ready
    /\ clients[c].live
    /\ \E accepts \in BOOLEAN :
       LET u == url(path, accepts)
       IN  IF ~u.ok
           THEN Aborted(c, "delete", path, None, T, accepts, u, Panic)
           ELSE LET request == RequestNew("Delete", u.uri)
                IN  send(c, "delete", path, None, T, accepts,
                         [request EXCEPT !.headers = set_headers(clients[c], @)])

\* ------------------------------------------------------------------ transport
\* send_response_err that dispatches the request a second time.
send_response_err_retry ==
    /\ call.pc = "wait_head"
    /\ IF call.dispatched < 2
       THEN /\ call' = [call EXCEPT !.dispatched = @ + 1]
            /\ UNCHANGED last
       ELSE /\ last' = Finished(Err(ErrorFromHyper("request"))) @@
                          [status |-> None, body |-> None]
            /\ call' = Idle
    /\ UNCHANGED clients

\* self.client.request(request).wait()? fails: no response head arrived.
send_response_err ==
    /\ call.pc = "wait_head"
    /\ last' = Finished(Err(ErrorFromHyper("request"))) @@
                  [status |-> None, body |-> None]
    /\ call' = Idle
    /\ UNCHANGED clients

\* The response head arrives; send reads the status and waits for the body.
send_response(status) ==
    /\ call.pc = "wait_head"
    /\ call' = [call EXCEPT !.pc = "wait_body", !.responses = @ + 1,
                            !.status = Some(status)]
    /\ UNCHANGED <<clients, last>>

\* send_body_err that classifies what it has (nothing) by the status.
send_body_err_classify ==
    /\ call.pc = "wait_body"
    /\ last' = Finished(send_classify(call.status[1], BodyEmpty, call.T)) @@
                  [status |-> call.status, body |-> None]
    /\ call' = Idle
    /\ UNCHANGED clients

\* response.body().concat2().wait()? fails while the body is read.
send_body_err ==
    /\ call.pc = "wait_body"
    /\ last' = Finished(Err(ErrorFromHyper("body"))) @@
                  [status |-> call.status, body |-> None]
    /\ call' = Idle
    /\ UNCHANGED clients

\* The whole body is buffered; send classifies the response and returns.
send_body(bytes) ==
    /\ call.pc = "wait_body"
    /\ last' = Finished(send_classify(call.status[1], bytes, call.T)) @@
                  [status |-> call.status, body |-> Some(bytes)]
    /\ call' = Idle
    /\ UNCHANGED clients

\* The caller lets go of the value the last operation returned.
drop_result ==
    /\ call.pc = "idle"
    /\ last # NoResult
    /\ last' = NoResult
    /\ UNCHANGED <<clients, call>>

\* ------------------------------------------------------------------ spec
Next ==
    \/ \E c \in ClientIds, k \in Keys : new(c, k)
    \/ \E c, d \in ClientIds, p \in ParamsValues : with(c, d, p)
    \/ \E c \in ClientIds, a \in Accounts : set_stripe_account(c, a)
    \/ \E c \in ClientIds, path \in Paths, T \in TargetTypes : get(c, path, T)
    \/ \E c \in ClientIds, path \in Paths, p \in PostParams, T \in TargetTypes :
          post(c, path, p, T)
    \/ \E c \in ClientIds, path \in Paths, T \in TargetTypes : post_empty(c, path, T)
    \/ \E c \in ClientIds, path \in Paths, T \in TargetTypes : delete(c, path, T)
    \/ send_response_err
    \/ \E status \in Statuses : send_response(status)
    \/ send_body_err
    \/ \E bytes \in Bodies : send_body(bytes)
    \/ drop_result

Spec == Init /\ [][Next]_vars

\* ------------------------------------------------------------------ claims
InFlight == call.pc # "idle"
Returned == last.op = "returned"
AbortedCall == last.op = "aborted"
Delivered == Returned /\ last.body # None
HasAccountHeader(request) == HeaderValues(request.headers, "Stripe-Account") # {}
BeginsWithSeparator(path) == Len(path) >= 1 /\ path[1] = "/"

\* C1: a response delivered in full whose status is outside 200..299 makes
\* the call return Err(RequestError), never a success value and never a
\* Deserialization error, whatever the body; the error's http_status is the
\* response's status code.
C1_NonSuccessIsRequestError ==
    (Delivered /\ last.status[1] \notin 200..299) =>
        /\ last.result.r = "Err"
        /\ last.result.err.kind = "RequestError"
        /\ last.result.err.request_error.http_status = last.status[1]

\* C1 witness: status 199 with a body that decodes as the success type asked
\* for has returned a RequestError stamped 199.
C1_Witness ==
    /\ Delivered
    /\ last.status = Some(199)
    /\ last.body = Some(BodyResource)
    /\ last.T = "Resource"
    /\ last.result.r = "Err"
    /\ last.result.err.kind = "RequestError"
    /\ last.result.err.request_error.http_status = 199

\* C2: with a status in 200..299 the call returns Ok of the value the body
\* decodes to as T, or Err(Deserialization) with the decode diagnostic when
\* it does not decode; never a RequestError, error envelope or not.  200 and
\* 299 are success, 199 and 300 are not.
C2_SuccessDecodesAsT ==
    Delivered =>
        LET decoded == JsonFromStr(last.T, FromUtf8Lossy(last.body[1]))
        IN  /\ last.status[1] \in 200..299 =>
                 /\ decoded.ok => last.result = Ok(decoded.value)
                 /\ ~decoded.ok =>
                      last.result = Err([kind |-> "Deserialization", diag |-> decoded.diag])
            /\ last.status[1] \in {200, 299} =>
                 (last.result.r = "Ok" \/ last.result.err.kind = "Deserialization")
            /\ last.status[1] \in {199, 300} =>
                 (last.result.r = "Err" /\ last.result.err.kind = "RequestError")

\* C2 witness: status 299 with an error envelope as body, asked for as
\* serde_json::Value, has returned Ok of the envelope.
C2_Witness ==
    /\ Delivered
    /\ last.status = Some(299)
    /\ last.body = Some(BodyEnvelope)
    /\ last.T = "Value"
    /\ last.result.r = "Ok"
    /\ last.result.value.f.error.f.message.s = "card declined"

\* C3: for a non-2xx response the RequestError's message is the message of
\* the envelope's nested error when the body decodes as an envelope (402
\* with {"error":{"message":"card declined"}} gives "card declined");
\* otherwise the message is the decode diagnostic behind the fixed prefix,
\* every other detail field is at its default, and http_status is the
\* response's status.
C3_MessageFromBody ==
    (Delivered /\ last.status[1] \notin 200..299) =>
        /\ last.result.r = "Err"
        /\ last.result.err.kind = "RequestError"
        /\ LET e == last.result.err.request_error
               decoded == JsonFromStrErrorObject(FromUtf8Lossy(last.body[1]))
           IN  /\ decoded.ok => e.message = decoded.value.error.message
               /\ ~decoded.ok =>
                    e = [http_status |-> last.status[1], error_type |-> None,
                         message |-> Some("failed to deserialize error: " \o decoded.diag),
                         code |-> None]
               /\ last.body[1] = BodyEnvelope => e.message = Some("card declined")
               /\ last.body[1] = BodyEmpty =>
                    e.message = Some("failed to deserialize error: EOF while parsing a value at line 1 column 0")

\* C3 witness: status 402 with an empty body has returned the fallback error.
C3_Witness ==
    /\ Delivered
    /\ last.status = Some(402)
    /\ last.body = Some(BodyEmpty)
    /\ last.result.r = "Err"
    /\ last.result.err.kind = "RequestError"
    /\ last.result.err.request_error.message # None
    /\ last.result.err.request_error.http_status = 402

\* C4: the request a call dispatches carries exactly one Stripe-Account
\* header, with the issuing client's account id, when that client's params
\* have one, and none when they have none; it carries the Basic
\* Authorization header of the client's secret key with no password, and the
\* form-url-encoded Content-Type.
C4_HeadersOfIssuingClient ==
    InFlight =>
        LET h == call.request.headers
            self == clients[call.c]
            only(name, value) ==
                /\ Cardinality(HeaderValues(h, name)) = 1
                /\ \A i \in HeaderValues(h, name) : h[i].value = value
        IN  /\ self.params.stripe_account # None =>
                 only("Stripe-Account", <<self.params.stripe_account[1]>>)
            /\ self.params.stripe_account = None =>
                 HeaderValues(h, "Stripe-Account") = {}
            /\ only("Authorization", <<"Basic", self.secret_key>>)
            /\ only("Content-Type", <<"application/x-www-form-urlencoded">>)

\* C4 witness: a request is in flight under a client scoped to acct_123
\* while another client, with another key, has no account.
C4_Witness ==
    /\ InFlight
    /\ clients[call.c].params.stripe_account = Some("acct_123")
    /\ HasAccountHeader(call.request)
    /\ \E o \in ClientIds :
          /\ clients[o].live
          /\ clients[o].secret_key # clients[call.c].secret_key
          /\ clients[o].params.stripe_account = None

\* C5: with(newParams) makes a client with exactly newParams and the
\* original's secret key and leaves the original as it was; after that no
\* step changes a client except set_stripe_account on that very client, which
\* changes its account only; so a request of a client with no account id
\* carries no Stripe-Account header, whatever its clones were set to.
C5_CloneIsolation ==
    [][ /\ last'.op = "with" =>
             /\ clients'[last'.d].live
             /\ clients'[last'.d].params = last'.params
             /\ clients'[last'.d].secret_key = clients[last'.c].secret_key
             /\ clients'[last'.c] = clients[last'.c]
        /\ \A c \in ClientIds :
             clients[c].live =>
                 \/ clients'[c] = clients[c]
                 \/ /\ last'.op = "set_stripe_account"
                    /\ last'.c = c
                    /\ clients'[c] = [clients[c] EXCEPT
                                         !.params.stripe_account = Some(last'.account_id)]
        /\ (call'.pc = "wait_head" /\ call.pc = "idle") =>
             (clients[call'.c].params.stripe_account = None
                  => ~HasAccountHeader(call'.request))
      ]_vars

\* C5 witness: with has just made a clone scoped to acct_123 of a client
\* that has no account id.
C5_Witness ==
    /\ last.op = "with"
    /\ last.params = [stripe_account |-> Some("acct_123")]
    /\ clients[last.c].params.stripe_account = None
    /\ clients[last.d].params.stripe_account = Some("acct_123")
    /\ clients[last.d].secret_key = clients[last.c].secret_key

\* C6: get dispatches GET with no body, post_empty POST with no body, delete
\* DELETE with no body, post POST with the query-string encoding of its
\* params as body; no other method is dispatched; the request goes to the
\* URL built from the caller's path.
C6_MethodAndBody ==
    InFlight =>
        LET r == call.request
        IN  /\ call.op = "get" => (r.method = "Get" /\ r.body = None)
            /\ call.op = "post_empty" => (r.method = "Post" /\ r.body = None)
            /\ call.op = "delete" => (r.method = "Delete" /\ r.body = None)
            /\ call.op = "post" =>
                 /\ r.method = "Post"
                 /\ call.params # None
                 /\ QsToString(call.params[1]).ok
                 /\ r.body = Some(QsToString(call.params[1]).value)
            /\ call.params = Some(ParamsExample) =>
                 r.body = Some("foo=bar&nested%5Bx%5D=1")
            /\ call.params = Some(ParamsAbsent) => r.body = Some("")
            /\ r.method \in {"Get", "Post", "Delete"}
            /\ Len(call.path) >= 1
            /\ r.uri = BaseUrl \o Tail(call.path)

\* C6 witness: post of {foo: "bar", nested: {x: 1}} to /a is in flight with
\* the encoded body.
C6_Witness ==
    /\ InFlight
    /\ call.op = "post"
    /\ call.path = <<"/", "a">>
    /\ call.request.method = "Post"
    /\ call.request.body = Some("foo=bar&nested%5Bx%5D=1")

\* C7 as stated: every call hands exactly one request to the transport and
\* consumes exactly one response.
C7_ExactlyOneRequestAndResponse ==
    (Returned \/ AbortedCall) => (last.dispatched = 1 /\ last.responses = 1)

\* C7 amended: a call hands at most one request to the transport and
\* consumes at most one response: exactly one request unless the call ends
\* before send (url panics or the params of post do not serialize), exactly
\* one response unless the transport fails before the response head; there
\* is no second dispatch on any outcome, and no step of a call changes any
\* client's secret key or params.
C7_SingleShot ==
    /\ [](InFlight => (call.dispatched = 1 /\ call.responses \in {0, 1}))
    /\ [](Returned =>
            /\ last.dispatched = 1
            /\ last.responses \in {0, 1}
            /\ last.responses = 0 <=>
                 (last.result = Err([kind |-> "Transport", cause |-> "request"])))
    /\ [](AbortedCall =>
            /\ last.dispatched = 0
            /\ last.responses = 0
            /\ \/ last.result = Panic
               \/ (last.result.r = "Err" /\ last.result.err.kind = "Serialization"))
    /\ [][(InFlight \/ call'.pc # "idle" \/ last'.op \in {"returned", "aborted"})
             => clients' = clients]_vars

\* C7 witness: a call has returned Ok after one request and one response.
C7_Witness ==
    /\ Returned
    /\ last.dispatched = 1
    /\ last.responses = 1
    /\ last.result.r = "Ok"

\* C8 as stated: post with params that do not serialize returns a
\* Serialization error, and no request reaches the transport.
C8_SerializationErrorAlways ==
    /\ (AbortedCall /\ last.method = "post" /\ ~QsToString(last.params[1]).ok) =>
           /\ last.result.r = "Err"
           /\ last.result.err.kind = "Serialization"
           /\ last.dispatched = 0
    /\ (InFlight /\ call.op = "post") => QsToString(call.params[1]).ok

\* C8 amended: post with params that do not serialize never hands a request
\* to the transport; when the path builds a URL it returns a Serialization
\* error (the encoding comes before the Request is made), and when the path
\* does not, the call has panicked in url before the encoding was tried.
C8_NoRequestWhenUnserializable ==
    /\ (AbortedCall /\ last.method = "post" /\ ~QsToString(last.params[1]).ok) =>
           /\ last.dispatched = 0
           /\ IF ~SlicePanics(last.path) /\ last.accepts
              THEN /\ last.result.r = "Err"
                   /\ last.result.err.kind = "Serialization"
              ELSE last.result = Panic
    /\ (InFlight /\ call.op = "post") => QsToString(call.params[1]).ok

\* C8 witness: post of a struct with a failing leaf to /a has returned a
\* Serialization error with nothing dispatched.
C8_Witness ==
    /\ AbortedCall
    /\ last.method = "post"
    /\ last.path = <<"/", "a">>
    /\ last.params = Some(ParamsBadLeaf)
    /\ last.result.r = "Err"
    /\ last.result.err.kind = "Serialization"
    /\ last.dispatched = 0

\* C9: a transport failure before the response head, or while the body is
\* read after the status was received, returns a Transport error after the
\* single dispatch; in the second case whatever the status was; a
\* RequestError, a Deserialization error or a success value is returned only
\* for a body that was buffered in full.
C9_TransportFailure ==
    Returned =>
        /\ last.status = None =>
             /\ last.result = Err([kind |-> "Transport", cause |-> "request"])
             /\ last.dispatched = 1
             /\ last.responses = 0
        /\ (last.status # None /\ last.body = None) =>
             /\ last.result = Err([kind |-> "Transport", cause |-> "body"])
             /\ last.dispatched = 1
        /\ (last.result.r = "Ok"
              \/ last.result.err.kind \in {"RequestError", "Deserialization"}) =>
             last.body # None

\* C9 witness: the body read failed after status 402 was received, and the
\* call returned a Transport error.
C9_Witness ==
    /\ Returned
    /\ last.status = Some(402)
    /\ last.body = None
    /\ last.result.r = "Err"
    /\ last.result.err.kind = "Transport"

\* C10: for a path that begins with "/", the string url builds is the fixed
\* prefix followed by the path without that one "/" (further separators are
\* kept), and it is the URL of the request when the parser accepts it; when
\* the parser rejects it, or the slice fails (the path is empty or begins
\* with a character of more than one byte), the call panics instead of
\* returning an Error, and no request is dispatched; a call panics in no
\* other case.
C10_UrlStripsOneSeparator ==
    /\ (InFlight /\ BeginsWithSeparator(call.path)) =>
           call.request.uri = BaseUrl \o Tail(call.path)
    /\ (InFlight /\ call.path = <<"/", "/">>) =>
           call.request.uri = BaseUrl \o <<"/">>
    /\ InFlight =>
           (Len(call.path) >= 1 /\ ByteLen(call.path[1]) = 1 /\ call.accepts)
    /\ AbortedCall =>
           /\ BeginsWithSeparator(last.path) =>
                 last.parsed = Some(BaseUrl \o Tail(last.path))
           /\ last.path = <<"/", "/">> => last.parsed = Some(BaseUrl \o <<"/">>)
           /\ last.path \in {<<>>, <<"é">>, <<"é", "/">>} =>
                 (last.parsed = None /\ last.result = Panic)
           /\ (Len(last.path) = 0 \/ ByteLen(last.path[1]) > 1 \/ ~last.accepts) =>
                 (last.result = Panic /\ last.dispatched = 0)
           /\ last.result = Panic =>
                 (Len(last.path) = 0 \/ ByteLen(last.path[1]) > 1 \/ ~last.accepts)

\* C10 witness: for the path "//" url handed the prefix followed by "/" to
\* the parser, the parser rejected it, and the call panicked with nothing
\* dispatched.
C10_Witness ==
    /\ AbortedCall
    /\ last.path = <<"/", "/">>
    /\ last.parsed = Some(BaseUrl \o <<"/">>)
    /\ ~last.accepts
    /\ last.result = Panic
    /\ last.dispatched = 0

====
